---- MODULE Spec2Model ----
(***************************************************************************)
(* Webhook reconciliation core of flask-headless-payments:                 *)
(*   routes/payments.py  webhook()            the HTTP endpoint            *)
(*   managers/webhook_manager.py WebhookManager  verify / register /       *)
(*                                             process_event / handlers    *)
(*   mixins/webhook.py, mixins/subscription.py the persisted records       *)
(* Every request is served by one worker; workers interleave at the        *)
(* blocking calls (commits, remote fetches).                               *)
(***************************************************************************)
EXTENDS Integers, Sequences, FiniteSets, TLC

(* ---------------------------------------------------------------- bounds *)
(* Requests to POST /webhook and register_handler calls in one run.        *)
MaxDeliveries == 1
MaxRegistrations == 1
(* The instants 0..MaxTime at which an entitlement method reads the clock, *)
(* and the observed calls of side-effect-free methods in one run.          *)
MaxTime == 3
MaxCalls == 1

(* ------------------------------------------------------------- vocabulary *)
None == "None"
NoTime == -1
(* datetime.utcnow(): the instant of the call; no claim orders instants.   *)
UtcNow == 0
NoUser == 0
NoRow == 0

Workers == {"w1", "w2"}
UserIds == {1, 2}

DefaultTypes ==
  {"checkout.session.completed", "customer.subscription.created",
   "customer.subscription.updated", "customer.subscription.deleted",
   "invoice.payment_succeeded", "invoice.payment_failed"}
EventTypes == DefaultTypes \cup {"charge.refunded"}

(* The custom handlers the application registers.                          *)
CustomHandlers == {"custom"}

(* ------------------------------------------------- gateway-side payloads *)
(* data.object of an event: a subscription, a checkout session or an       *)
(* invoice.  Fields a kind of object does not carry are None / NoTime.     *)
Subscription(sid, cust, status, plan, cps, cpe, ts, te, cape) ==
  [id |-> sid, customer |-> cust, subscription |-> None, status |-> status,
   plan |-> plan, current_period_start |-> cps, current_period_end |-> cpe,
   trial_start |-> ts, trial_end |-> te, cancel_at_period_end |-> cape]

SubTrialing(cust) ==
  Subscription("sub_1", cust, "trialing", "pro", 0, 3, 0, 3, FALSE)
SubActive(cust) ==
  Subscription("sub_1", cust, "active", "enterprise", 1, 4, NoTime, NoTime, TRUE)
SubCanceled(cust) ==
  Subscription("sub_1", cust, "canceled", "enterprise", 1, 4, NoTime, NoTime, TRUE)

Session(cust, subid) ==
  [id |-> "cs_1", customer |-> cust, subscription |-> subid, status |-> "complete",
   plan |-> None, current_period_start |-> NoTime, current_period_end |-> NoTime,
   trial_start |-> NoTime, trial_end |-> NoTime, cancel_at_period_end |-> FALSE]

Invoice ==
  [id |-> "in_1", customer |-> "cus_1", subscription |-> "sub_1", status |-> "paid",
   plan |-> None, current_period_start |-> NoTime, current_period_end |-> NoTime,
   trial_start |-> NoTime, trial_end |-> NoTime, cancel_at_period_end |-> FALSE]

Event(id, type, object) == [id |-> id, type |-> type, data |-> object]

(* The events the gateway has emitted; the gateway event id identifies the *)
(* event.  cus_1 is linked to a local user, cus_x to none.                 *)
GatewayEvents ==
  { Event("evt_01", "customer.subscription.created", SubTrialing("cus_1")),
    Event("evt_02", "customer.subscription.updated", SubActive("cus_1")),
    Event("evt_03", "customer.subscription.deleted", SubCanceled("cus_1")),
    Event("evt_04", "checkout.session.completed", Session("cus_1", "sub_1")),
    Event("evt_05", "checkout.session.completed", Session("cus_1", None)),
    Event("evt_06", "customer.subscription.created", SubTrialing("cus_x")),
    Event("evt_07", "customer.subscription.updated", SubActive("cus_x")),
    Event("evt_08", "customer.subscription.deleted", SubCanceled("cus_x")),
    Event("evt_09", "checkout.session.completed", Session("cus_x", "sub_1")),
    Event("evt_10", "invoice.payment_succeeded", Invoice),
    Event("evt_11", "invoice.payment_failed", Invoice),
    Event("evt_12", "charge.refunded", Invoice) }

EventIds == {e.id : e \in GatewayEvents}
NoEvent == Event(None, None, Invoice)

(* What the gateway may answer to "fetch subscription by id".              *)
RemoteSubscriptions(cust) == {SubTrialing(cust), SubActive(cust)}


(* ------------------------------------------------------ persisted records *)
(* mixins/subscription.py: the subscription fields carried by a user row.  *)
User(cust, subid, plan, status, cps, cpe, cape, ts, te) ==
  [stripe_customer_id |-> cust, stripe_subscription_id |-> subid,
   plan_name |-> plan, plan_status |-> status,
   current_period_start |-> cps, current_period_end |-> cpe,
   cancel_at_period_end |-> cape, trial_start |-> ts, trial_end |-> te]

FreshUser(cust) == User(cust, None, None, None, NoTime, NoTime, FALSE, NoTime, NoTime)
ActiveUser(cust) == User(cust, "sub_1", "pro", "active", 0, 2, FALSE, 0, 1)

(* ----------------------------------------------- SubscriptionMixin methods *)
(* The entitlement methods of a user row; `now` is what datetime.utcnow()  *)
(* returns at the call.  `not x` is true of None and of the empty string;  *)
(* a datetime is never falsy.                                              *)

(* Variant: any non-empty status counts as subscribed.                     *)
is_subscribed_AnyStatus(u) ==
  IF u.plan_status \in {None, ""} THEN FALSE ELSE TRUE

is_subscribed(u) ==
  IF u.plan_status \in {None, ""} THEN FALSE
  ELSE u.plan_status \in {"active", "trialing"}

(* Variant: the trial still counts at the instant it ends.                 *)
is_on_trial_Inclusive(u, now) ==
  IF u.trial_end = NoTime THEN FALSE
  ELSE now <= u.trial_end /\ u.plan_status = "trialing"

is_on_trial(u, now) ==
  IF u.trial_end = NoTime THEN FALSE
  ELSE now < u.trial_end /\ u.plan_status = "trialing"

(* Variant: the period end is not compared with the clock.                 *)
subscription_active_NoExpiry(u, now) ==
  IF ~is_subscribed(u) THEN FALSE
  ELSE IF u.current_period_end = NoTime THEN FALSE
  ELSE TRUE

subscription_active(u, now) ==
  IF ~is_subscribed(u) THEN FALSE
  ELSE IF u.current_period_end = NoTime THEN FALSE
  ELSE now < u.current_period_end

(* Variant: the plan name is compared whatever the status.                 *)
has_plan_IgnoresStatus(u, plan_name) == u.plan_name = plan_name

has_plan(u, plan_name) ==
  IF ~is_subscribed(u) THEN FALSE ELSE u.plan_name = plan_name

has_any_plan(u, plan_names) ==
  IF ~is_subscribed(u) THEN FALSE ELSE u.plan_name \in plan_names

(* Variant: the row is stored already marked processed.                   *)
WebhookEventRow_Processed(event, t) ==
  [stripe_event_id |-> event.id, event_type |-> event.type, data |-> event.data,
   received_at |-> t, processed |-> TRUE, processed_at |-> t, error |-> None]

(* mixins/webhook.py + process_event lines 84-89: the row as first stored. *)
(* processed and error are not passed to the constructor: not processed,   *)
(* no error.                                                               *)
WebhookEventRow(event, t) ==
  [stripe_event_id |-> event.id, event_type |-> event.type, data |-> event.data,
   received_at |-> t, processed |-> FALSE, processed_at |-> NoTime, error |-> None]

(* ------------------------------------------------------------ verification *)
(* The request body: well-formed JSON of an event, or bytes that do not    *)
(* decode.                                                                 *)
Encode(event) == [wellformed |-> TRUE, event |-> event]
Garbage == [wellformed |-> FALSE, event |-> NoEvent]

(* The Stripe-Signature header: absent, or a MAC of some payload under     *)
(* some secret.                                                            *)
NoHeader == [present |-> FALSE, payload |-> Garbage, secret |-> None]
Sign(payload, secret) == [present |-> TRUE, payload |-> payload, secret |-> secret]

ConfiguredSecret == "whsec_1"
WrongSecret == "whsec_bad"

(* Variant: a request without a signature header is let through.          *)
verify_webhook_NoHeaderOk(payload, sig_header, secret) ==
  IF sig_header.present /\ sig_header # Sign(payload, secret) THEN NoEvent
  ELSE IF ~payload.wellformed THEN NoEvent
  ELSE payload.event

(* Variant: the header is checked against the secret but not against the   *)
(* body it arrived with.                                                   *)
verify_webhook_SecretOnly(payload, sig_header, secret) ==
  IF ~sig_header.present \/ sig_header.secret # secret THEN NoEvent
  ELSE IF ~payload.wellformed THEN NoEvent
  ELSE payload.event

(* stripe.Webhook.construct_event under the try/except of verify_webhook:  *)
(* SignatureVerificationError and ValueError both become "no event".       *)
verify_webhook(payload, sig_header, secret) ==
  IF ~sig_header.present \/ sig_header # Sign(payload, secret) THEN NoEvent
  ELSE IF ~payload.wellformed THEN NoEvent
  ELSE payload.event

(* What can arrive at POST /webhook.                                       *)
GenuineRequests ==
  {[payload |-> Encode(e), sig_header |-> Sign(Encode(e), ConfiguredSecret)] :
      e \in GatewayEvents}

SomeEvent == CHOOSE e \in GatewayEvents : e.id = "evt_01"
OtherEvent == CHOOSE e \in GatewayEvents : e.id = "evt_03"

BadRequests ==
  { [payload |-> Encode(SomeEvent), sig_header |-> NoHeader],
    [payload |-> Encode(SomeEvent), sig_header |-> Sign(Encode(SomeEvent), WrongSecret)],
    [payload |-> Encode(SomeEvent), sig_header |-> Sign(Encode(OtherEvent), ConfiguredSecret)],
    [payload |-> Garbage, sig_header |-> Sign(Garbage, ConfiguredSecret)],
    [payload |-> Garbage, sig_header |-> NoHeader] }

Requests == GenuineRequests \cup BadRequests


(* ------------------------------------------------------------ the handlers *)
NoExc == None
FetchFailed == "stripe: subscription fetch failed"
CommitFailed == "db: commit failed"
HandlerRaised == "custom handler raised"
MarkFailed == "db: commit of the processed flag failed"

(* What a handler leaves behind: the user table and the exception it       *)
(* raised (NoExc when it returned).                                        *)
Outcome(us, ex) == [users |-> us, exc |-> ex]

(* Variant: the query carries no filter and returns the first user.        *)
FindUser_Unfiltered(us, customer_id) ==
  CHOOSE u \in DOMAIN us : \A v \in DOMAIN us : u <= v

(* user_model.query.filter_by(stripe_customer_id=customer_id).first()      *)
FindUser(us, customer_id) ==
  IF \E u \in DOMAIN us : us[u].stripe_customer_id = customer_id
  THEN CHOOSE u \in DOMAIN us :
         /\ us[u].stripe_customer_id = customer_id
         /\ \A v \in DOMAIN us : us[v].stripe_customer_id = customer_id => u <= v
  ELSE NoUser

(* SubscriptionManager.update_user_subscription, by its contract: the      *)
(* user's plan name, plan status, period bounds, trial bounds and          *)
(* cancel-at-period-end flag mirror the gateway subscription.              *)
MirrorSubscription(u, subscription) ==
  [u EXCEPT !.plan_name = subscription.plan,
            !.plan_status = subscription.status,
            !.current_period_start = subscription.current_period_start,
            !.current_period_end = subscription.current_period_end,
            !.trial_start = subscription.trial_start,
            !.trial_end = subscription.trial_end,
            !.cancel_at_period_end = subscription.cancel_at_period_end]

(* It persists, and persisting can fail: the user is then as before.       *)
update_user_subscription(us, uid, subscription) ==
  { Outcome([us EXCEPT ![uid] = MirrorSubscription(us[uid], subscription)], NoExc),
    Outcome(us, CommitFailed) }

(* stripe.Subscription.retrieve(subscription_id): a subscription the       *)
(* gateway holds now, or an error.                                         *)
RetrieveSubscription(session) ==
  [ok : {TRUE}, subscription : RemoteSubscriptions(session.customer)]
    \cup {[ok |-> FALSE, subscription |-> SubActive(session.customer)]}

(* Variant: the session payload itself is applied; nothing is fetched.     *)
_handle_checkout_completed_UsesSession(us, session) ==
  LET customer_id == session.customer
      subscription_id == session.subscription
  IN IF subscription_id # None
     THEN LET user == FindUser(us, customer_id)
          IN IF user # NoUser
             THEN update_user_subscription(us, user, session)
             ELSE {Outcome(us, NoExc)}
     ELSE {Outcome(us, NoExc)}

_handle_checkout_completed(us, session) ==
  LET customer_id == session.customer
      subscription_id == session.subscription
  IN IF subscription_id # None
     THEN UNION { IF ~f.ok THEN {Outcome(us, FetchFailed)}
                  ELSE LET user == FindUser(us, customer_id)
                       IN IF user # NoUser
                          THEN update_user_subscription(us, user, f.subscription)
                          ELSE {Outcome(us, NoExc)}
                  : f \in RetrieveSubscription(session) }
     ELSE {Outcome(us, NoExc)}

(* Variant: a payload older than the user's current period is not applied. *)
_handle_subscription_created_IfNewer(us, subscription) ==
  LET user == FindUser(us, subscription.customer)
  IN IF user = NoUser THEN {Outcome(us, NoExc)}
     ELSE IF us[user].current_period_start > subscription.current_period_start
     THEN {Outcome(us, NoExc)}
     ELSE update_user_subscription(us, user, subscription)

_handle_subscription_created(us, subscription) ==
  LET user == FindUser(us, subscription.customer)
  IN IF user # NoUser THEN update_user_subscription(us, user, subscription)
     ELSE {Outcome(us, NoExc)}

(* Variant: the update handler looks the user up and applies nothing.      *)
_handle_subscription_updated_Skip(us, subscription) ==
  {Outcome(us, NoExc)}

_handle_subscription_updated(us, subscription) ==
  LET user == FindUser(us, subscription.customer)
  IN IF user # NoUser THEN update_user_subscription(us, user, subscription)
     ELSE {Outcome(us, NoExc)}

(* Variant: the deletion handler also clears the period and trial bounds.  *)
CancelUser_ClearsPeriod(u) ==
  [u EXCEPT !.plan_status = "canceled", !.stripe_subscription_id = None,
            !.current_period_end = NoTime, !.trial_end = NoTime]

(* The fields the deletion handler assigns before its commit.              *)
CancelUser(u) ==
  [u EXCEPT !.plan_status = "canceled", !.stripe_subscription_id = None]

_handle_subscription_deleted(us, subscription) ==
  LET user == FindUser(us, subscription.customer)
  IN IF user # NoUser
     THEN { Outcome([us EXCEPT ![user] = CancelUser(us[user])], NoExc),
            Outcome(us, CommitFailed) }
     ELSE {Outcome(us, NoExc)}

_handle_invoice_paid(us, invoice) == {Outcome(us, NoExc)}

(* Variant: a failed payment marks the customer's user past due.           *)
_handle_invoice_failed_PastDue(us, invoice) ==
  LET user == FindUser(us, invoice.customer)
  IN IF user # NoUser
     THEN {Outcome([us EXCEPT ![user].plan_status = "past_due"], NoExc)}
     ELSE {Outcome(us, NoExc)}

_handle_invoice_failed(us, invoice) == {Outcome(us, NoExc)}

_handle_default_event(us, event_type, event_data) ==
  IF event_type = "checkout.session.completed"
    THEN _handle_checkout_completed(us, event_data)
  ELSE IF event_type = "customer.subscription.created"
    THEN _handle_subscription_created(us, event_data)
  ELSE IF event_type = "customer.subscription.updated"
    THEN _handle_subscription_updated(us, event_data)
  ELSE IF event_type = "customer.subscription.deleted"
    THEN _handle_subscription_deleted(us, event_data)
  ELSE IF event_type = "invoice.payment_succeeded"
    THEN _handle_invoice_paid(us, event_data)
  ELSE IF event_type = "invoice.payment_failed"
    THEN _handle_invoice_failed(us, event_data)
  ELSE {Outcome(us, NoExc)}

(* A registered custom handler, called with (event_data, db, user_model):  *)
(* application code, which returns or raises.                              *)
CallCustom(handler, us, event_data) ==
  {Outcome(us, NoExc), Outcome(us, HandlerRaised)}

(* Variant: a type that already has a handler keeps it.                    *)
register_handler_KeepFirst(handlers, event_type, handler) ==
  IF handlers[event_type] # None THEN handlers
  ELSE [handlers EXCEPT ![event_type] = handler]

(* line 67: self.event_handlers[event_type] = handler                      *)
register_handler(handlers, event_type, handler) ==
  [handlers EXCEPT ![event_type] = handler]

(* Variant: the default table is consulted before the registry.            *)
Dispatch_DefaultFirst(handlers, event_type) ==
  IF event_type \in DefaultTypes \/ handlers[event_type] = None THEN "default"
  ELSE handlers[event_type]

(* process_event lines 94-99: which handler serves the type.               *)
Dispatch(handlers, event_type) ==
  IF handlers[event_type] # None THEN handlers[event_type] ELSE "default"

RunDispatched(handler, us, event_type, event_data) ==
  IF handler = "default" THEN _handle_default_event(us, event_type, event_data)
  ELSE CallCustom(handler, us, event_data)

(* ------------------------------------------- process_event's bookkeeping *)
(* Variant: the flag is set without the timestamp.                         *)
markProcessed_NoTimestamp(r, t) == [r EXCEPT !.processed = TRUE]

(* lines 102-103 *)
markProcessed(r, t) == [r EXCEPT !.processed = TRUE, !.processed_at = t]
(* line 111 *)
markFailed(r, msg) == [r EXCEPT !.error = msg]

Completion(r, res) == [row |-> r, result |-> res]

(* lines 109-115: the except branch, whose own commit can fail; the        *)
(* exception then leaves process_event.                                    *)
OnException(r, msg) ==
  { Completion(markFailed(r, msg), "False"), Completion(r, "raised") }

(* Variant: the flag set before the failed commit stays on the row that    *)
(* the except branch then stores with its error.                           *)
Complete_KeepsFlag(r, ex, t) ==
  IF ex = NoExc
  THEN {Completion(markProcessed(r, t), "True")}
         \cup OnException(markProcessed(r, t), MarkFailed)
  ELSE OnException(r, ex)

(* lines 101-115: what process_event does once the handler is back.        *)
(* A failed commit discards the unit of work it was to persist.            *)
Complete(r, ex, t) ==
  IF ex = NoExc
  THEN {Completion(markProcessed(r, t), "True")} \cup OnException(r, MarkFailed)
  ELSE OnException(r, ex)

(* Variant: the view answers 200 whatever process_event returned.          *)
StatusOf_AlwaysOk(result) == 200

(* routes/payments.py lines 304-307; an exception that leaves the view     *)
(* is answered 500 by the framework.                                       *)
StatusOf(result) == IF result = "True" THEN 200 ELSE 500


(* ------------------------------------------------------------------ state *)
VARIABLES
  webhook_secret,   \* config['STRIPE_WEBHOOK_SECRET'] (None when not configured)
  event_handlers,   \* WebhookManager.event_handlers: type -> handler (None: unset)
  rows,             \* the WebhookEvent table, in insertion order
  users,            \* the user table: id -> subscription fields
  requests,         \* the POST /webhook requests in arrival order, each with the
                    \* position and locals of the code serving it
  registrations,    \* history: register_handler calls so far
  calls             \* history: the observed calls of the side-effect-free
                    \* methods and of register_handler, with their arguments
                    \* and results (empty where no call is observed)

vars == <<webhook_secret, event_handlers, rows, users, requests, registrations, calls>>

(* The locals of one request:                                              *)
(*   pc        "handler" (row stored, handler not yet run), "finish"       *)
(*             (handler back), "done" (answered), "crashed"                *)
(*   req       the request: body and Stripe-Signature header              *)
(*   event     the verified event (NoEvent when verification failed)       *)
(*   row       index in rows of the row process_event inserted             *)
(*   exc       the exception the handler raised                            *)
(*   ran       the handler process_event invoked ("none": none)            *)
(*   result    what process_event returned ("raised": an exception left it)*)
(*   response  the HTTP status answered (0: none yet)                      *)
Request(p, rq, e, rw, ex, h, res, st) ==
  [pc |-> p, req |-> rq, event |-> e, row |-> rw, exc |-> ex, ran |-> h,
   result |-> res, response |-> st]

InFlight == {d \in DOMAIN requests : requests[d].pc \in {"handler", "finish"}}

Init ==
  /\ webhook_secret \in {None, ConfiguredSecret}
  /\ event_handlers = [t \in EventTypes |-> None]
  /\ rows = <<>>
  /\ users \in {[u \in UserIds |-> IF u = 1 THEN first ELSE ActiveUser("cus_2")] :
                  first \in {FreshUser("cus_1"), ActiveUser("cus_1")}}
  /\ requests = <<>>
  /\ registrations = 0
  /\ calls = <<>>

(* register_handler(event_type, handler) *)
RegisterHandler(t, h) ==
  /\ registrations < MaxRegistrations
  /\ registrations' = registrations + 1
  /\ event_handlers' = register_handler(event_handlers, t, h)
  /\ UNCHANGED <<webhook_secret, rows, users, requests, calls>>

(* POST /webhook up to the first commit of process_event:                  *)
(* routes/payments.py 287-299, webhook_manager.py 80-91.                   *)
Webhook(req) ==
  /\ Cardinality(InFlight) < Cardinality(Workers)
  /\ UNCHANGED <<webhook_secret, event_handlers, users, registrations, calls>>
  /\ IF webhook_secret = None
     THEN /\ requests' = Append(requests, Request("done", req, NoEvent, NoRow, NoExc, "none", "none", 500))
          /\ rows' = rows
     ELSE LET e == verify_webhook(req.payload, req.sig_header, webhook_secret)
          IN IF e = NoEvent
             THEN /\ requests' = Append(requests, Request("done", req, NoEvent, NoRow, NoExc, "none", "none", 400))
                  /\ rows' = rows
             ELSE \/ /\ rows' = Append(rows, WebhookEventRow(e, UtcNow))
                     /\ requests' = Append(requests,
                          Request("handler", req, e, Len(rows) + 1, NoExc, "none", "none", 0))
                  \/ \* the commit of line 91 fails: nothing is stored and the
                     \* exception leaves process_event
                     /\ rows' = rows
                     /\ requests' = Append(requests,
                          Request("done", req, e, NoRow, CommitFailed, "none", "raised",
                                  StatusOf("raised")))

(* process_event lines 93-99: the handler runs. *)
RunHandler(d) ==
  /\ requests[d].pc = "handler"
  /\ LET r == requests[d]
         h == Dispatch(event_handlers, r.event.type)
     IN \E o \in RunDispatched(h, users, r.event.type, r.event.data) :
          /\ users' = o.users
          /\ requests' = [requests EXCEPT ![d] = [r EXCEPT !.pc = "finish", !.exc = o.exc, !.ran = h]]
  /\ UNCHANGED <<webhook_secret, event_handlers, rows, registrations, calls>>

(* Variant: the outcome is written to every row of the event's gateway id, *)
(* not to the row this call inserted.                                      *)
Finish_ByEventId(d) ==
  /\ requests[d].pc = "finish"
  /\ LET r == requests[d]
     IN \E c \in Complete(rows[r.row], r.exc, UtcNow) :
          /\ rows' = [i \in DOMAIN rows |->
                        IF rows[i].stripe_event_id = r.event.id THEN c.row ELSE rows[i]]
          /\ requests' = [requests EXCEPT ![d] =
                 [r EXCEPT !.pc = "done", !.result = c.result, !.response = StatusOf(c.result)]]
  /\ UNCHANGED <<webhook_secret, event_handlers, users, registrations, calls>>

(* process_event lines 101-115 and the answer, routes/payments.py 302-307. *)
Finish(d) ==
  /\ requests[d].pc = "finish"
  /\ LET r == requests[d]
     IN \E c \in Complete(rows[r.row], r.exc, UtcNow) :
          /\ rows' = [rows EXCEPT ![r.row] = c.row]
          /\ requests' = [requests EXCEPT ![d] =
                 [r EXCEPT !.pc = "done", !.result = c.result, !.response = StatusOf(c.result)]]
  /\ UNCHANGED <<webhook_secret, event_handlers, users, registrations, calls>>

(* The serving process dies while process_event is between its commits.    *)
Crash(d) ==
  /\ requests[d].pc \in {"handler", "finish"}
  /\ requests' = [requests EXCEPT ![d].pc = "crashed"]
  /\ UNCHANGED <<webhook_secret, event_handlers, rows, users, registrations, calls>>

(* One step of the system while fewer than `limit` requests have arrived. *)
Step(limit) ==
  \/ \E t \in EventTypes, h \in CustomHandlers : RegisterHandler(t, h)
  \/ \E req \in Requests : Len(requests) < limit /\ Webhook(req)
  \/ \E d \in DOMAIN requests : RunHandler(d)
  \/ \E d \in DOMAIN requests : Finish(d)
  \/ \E d \in DOMAIN requests : Crash(d)

Next == Step(MaxDeliveries)

Spec == Init /\ [][Next]_vars

(* The gateway retries and overlaps deliveries: one request more, so that  *)
(* an event can arrive again while or after its first delivery is served.  *)
NextRedelivery == Step(MaxDeliveries + 1)

SpecRedelivery == Init /\ [][NextRedelivery]_vars

(* Redelivery after a failure: an event that changes a user and one that   *)
(* changes none, each delivered up to MaxDeliveries + 1 times, by default  *)
(* or custom handler.                                                      *)
RetryRequests ==
  {rq \in GenuineRequests : rq.payload.event.id \in {"evt_01", "evt_12"}}
RetryTypes == {rq.payload.event.type : rq \in RetryRequests}

InitRetry == Init /\ webhook_secret = ConfiguredSecret

NextRetry ==
  \/ \E t \in RetryTypes, h \in CustomHandlers : RegisterHandler(t, h)
  \/ \E req \in RetryRequests : Len(requests) < MaxDeliveries + 1 /\ Webhook(req)
  \/ \E d \in DOMAIN requests : RunHandler(d)
  \/ \E d \in DOMAIN requests : Finish(d)
  \/ \E d \in DOMAIN requests : Crash(d)

SpecRetry == InitRetry /\ [][NextRetry]_vars

(* Arrival order: the subscription events of one customer, delivered one   *)
(* after the other (a request arrives when none is being served), in any   *)
(* order, the older payload (evt_01) after the newer (evt_02) included.    *)
OrderRequests ==
  {rq \in GenuineRequests : rq.payload.event.id \in {"evt_01", "evt_02"}}

InitOrder == Init /\ webhook_secret = ConfiguredSecret

NextOrder ==
  \/ \E req \in OrderRequests :
       Len(requests) < MaxDeliveries + 1 /\ InFlight = {} /\ Webhook(req)
  \/ \E d \in DOMAIN requests : RunHandler(d)
  \/ \E d \in DOMAIN requests : Finish(d)
  \/ \E d \in DOMAIN requests : Crash(d)

SpecOrder == InitOrder /\ [][NextOrder]_vars

(* Revocation: the deletion of a customer's subscription and a later       *)
(* subscription event of the same customer, in any order and overlapping.  *)
RevokeRequests ==
  {rq \in GenuineRequests : rq.payload.event.id \in {"evt_03", "evt_01"}}

InitRevoke == Init /\ webhook_secret = ConfiguredSecret

NextRevoke ==
  \/ \E req \in RevokeRequests : Len(requests) < MaxDeliveries + 1 /\ Webhook(req)
  \/ \E d \in DOMAIN requests : RunHandler(d)
  \/ \E d \in DOMAIN requests : Finish(d)
  \/ \E d \in DOMAIN requests : Crash(d)

SpecRevoke == InitRevoke /\ [][NextRevoke]_vars

(* ----------------------------------------------------------- the registry *)
(* The application registers its handlers one call after another, any of   *)
(* them for a type that already has one; each call is recorded in calls.   *)
RegistryHandlers == CustomHandlers \cup {"custom2"}
(* The types registered for: one of the default table that is delivered,   *)
(* one outside it that is delivered, and one that is never delivered.      *)
RegistryTypes ==
  {"customer.subscription.deleted", "charge.refunded", "invoice.payment_failed"}
RegistryRequests ==
  {rq \in GenuineRequests : rq.payload.event.id \in {"evt_03", "evt_12"}}

RegisterCall(t, h) == [fn |-> "register_handler", event_type |-> t, handler |-> h]

InitRegistry == Init /\ webhook_secret = ConfiguredSecret

ObservedRegisterHandler(t, h) ==
  /\ registrations < MaxRegistrations + 1
  /\ registrations' = registrations + 1
  /\ event_handlers' = register_handler(event_handlers, t, h)
  /\ calls' = Append(calls, RegisterCall(t, h))
  /\ UNCHANGED <<webhook_secret, rows, users, requests>>

NextRegistry ==
  \/ \E t \in RegistryTypes, h \in RegistryHandlers : ObservedRegisterHandler(t, h)
  \/ \E req \in RegistryRequests : Len(requests) < MaxDeliveries /\ Webhook(req)
  \/ \E d \in DOMAIN requests : RunHandler(d)
  \/ \E d \in DOMAIN requests : Finish(d)
  \/ \E d \in DOMAIN requests : Crash(d)

SpecRegistry == InitRegistry /\ [][NextRegistry]_vars

(* ------------------------------------------- the side-effect-free methods *)
(* The entitlement methods of SubscriptionMixin and verify_webhook read    *)
(* their receiver and arguments only.  They are exercised on their own:    *)
(* over every user row of UserRows, every instant of Times and every       *)
(* (payload, header, secret) triple of the sets below; each call is        *)
(* recorded in calls with its arguments and its result.                    *)
Times == 0 .. MaxTime
Statuses == {None, "", "active", "trialing", "canceled", "past_due", "incomplete"}

UserRows ==
  { User("cus_1", "sub_1", "pro", st, 0, cpe, FALSE, 0, te) :
      st \in Statuses, cpe \in {NoTime} \cup Times, te \in {NoTime} \cup Times }

Payloads == {Encode(SomeEvent), Encode(OtherEvent), Garbage}
Secrets == {ConfiguredSecret, WrongSecret}
SigHeaders == {NoHeader} \cup {Sign(p, k) : p \in Payloads, k \in Secrets}

EntitlementCall(fn, u, now, result) ==
  [fn |-> fn, user |-> u, now |-> now, result |-> result]
VerifyCall(payload, sig_header, secret, event) ==
  [fn |-> "verify_webhook", payload |-> payload, sig_header |-> sig_header,
   secret |-> secret, event |-> event]

InitQueries ==
  /\ webhook_secret = ConfiguredSecret
  /\ event_handlers = [t \in EventTypes |-> None]
  /\ rows = <<>>
  /\ users \in {[u \in UserIds |-> IF u = 1 THEN row ELSE ActiveUser("cus_2")] :
                  row \in UserRows}
  /\ requests = <<>>
  /\ registrations = 0
  /\ calls = <<>>

IsSubscribed(u) ==
  /\ Len(calls) < MaxCalls
  /\ calls' = Append(calls,
       EntitlementCall("is_subscribed", users[u], NoTime, is_subscribed(users[u])))
  /\ UNCHANGED <<webhook_secret, event_handlers, rows, users, requests, registrations>>

IsOnTrial(u, now) ==
  /\ Len(calls) < MaxCalls
  /\ calls' = Append(calls,
       EntitlementCall("is_on_trial", users[u], now, is_on_trial(users[u], now)))
  /\ UNCHANGED <<webhook_secret, event_handlers, rows, users, requests, registrations>>

SubscriptionActive(u, now) ==
  /\ Len(calls) < MaxCalls
  /\ calls' = Append(calls,
       EntitlementCall("subscription_active", users[u], now,
                       subscription_active(users[u], now)))
  /\ UNCHANGED <<webhook_secret, event_handlers, rows, users, requests, registrations>>

VerifyWebhook(payload, sig_header, secret) ==
  /\ Len(calls) < MaxCalls
  /\ calls' = Append(calls,
       VerifyCall(payload, sig_header, secret,
                  verify_webhook(payload, sig_header, secret)))
  /\ UNCHANGED <<webhook_secret, event_handlers, rows, users, requests, registrations>>

NextQueries ==
  \/ \E u \in UserIds : IsSubscribed(u)
  \/ \E u \in UserIds, now \in Times : IsOnTrial(u, now)
  \/ \E u \in UserIds, now \in Times : SubscriptionActive(u, now)
  \/ \E p \in Payloads, h \in SigHeaders, k \in Secrets : VerifyWebhook(p, h, k)

SpecQueries == InitQueries /\ [][NextQueries]_vars

(* ================================================================ claims *)
Done(d) == requests[d].pc = "done"
HandlerRan(d) == requests[d].ran # "none"
RowOf(d) == rows[requests[d].row]
CustomerKeyedTypes ==
  {"checkout.session.completed", "customer.subscription.created",
   "customer.subscription.updated", "customer.subscription.deleted"}
(* The handler step of request d: process_event lines 93-99. *)
HandlerStep(d) ==
  /\ d \in DOMAIN requests
  /\ requests[d].pc = "handler"
  /\ requests'[d].pc = "finish"
(* A request is authentic when its body is well-formed and its header is   *)
(* the signature of that very body under the configured secret.            *)
Authentic(rq) ==
  /\ rq.payload.wellformed
  /\ rq.sig_header.present
  /\ rq.sig_header.payload = rq.payload
  /\ rq.sig_header.secret = ConfiguredSecret

(* C1: the event store holds at most one WebhookEvent row per gateway      *)
(* event id, whatever deliveries and redeliveries arrived.                 *)
C1_OneRowPerEventId ==
  \A i, j \in DOMAIN rows :
    rows[i].stripe_event_id = rows[j].stripe_event_id => i = j

(* C2: once an event has been delivered and processed, delivering the same *)
(* gateway event id again leaves the users as they are: the effect is not  *)
(* applied a second time.                                                  *)
C2_RedeliveryLeavesUsers ==
  [][\A d \in DOMAIN requests :
       ( /\ HandlerStep(d)
         /\ \E k \in DOMAIN requests :
              /\ k # d
              /\ requests[k].event.id = requests[d].event.id
              /\ requests[k].result = "True" )
       => users' = users]_vars

(* C3: a handler (custom or default) runs at most once per gateway event   *)
(* id: a delivery whose id already has a row is skipped.                   *)
C3_HandlerOncePerEventId ==
  \A d, k \in DOMAIN requests :
    ( /\ HandlerRan(d) /\ HandlerRan(k)
      /\ requests[d].event.id = requests[k].event.id ) => d = k

(* C4: the row is committed, not processed, before any handler starts:     *)
(* while process_event is at or past its handler, and after a crash there, *)
(* the row of that delivery exists, carries its event id and is not marked *)
(* processed; no handler has run for a delivery without a row.             *)
C4_RowStoredBeforeHandler ==
  \A d \in DOMAIN requests :
    /\ requests[d].pc \in {"handler", "finish", "crashed"} =>
         /\ requests[d].row \in DOMAIN rows
         /\ RowOf(d).stripe_event_id = requests[d].event.id
         /\ RowOf(d).processed = FALSE
    /\ HandlerRan(d) => requests[d].row \in DOMAIN rows

C4_Witness ==
  \E d \in DOMAIN requests :
    /\ requests[d].pc = "crashed"
    /\ HandlerRan(d)
    /\ RowOf(d).processed = FALSE
    /\ RowOf(d).stripe_event_id = requests[d].event.id

(* C5: when the handler raised, process_event returns False and the row    *)
(* ends not processed with the exception message as its error; the         *)
(* exception does not leave process_event.                                 *)
C5_HandlerFailureRecorded ==
  \A d \in DOMAIN requests :
    (Done(d) /\ HandlerRan(d) /\ requests[d].exc # NoExc) =>
      /\ requests[d].result = "False"
      /\ RowOf(d).processed = FALSE
      /\ RowOf(d).error = requests[d].exc

(* C6 as stated: when the handler returned without raising, the row ends   *)
(* processed with processed_at set and no error, and process_event         *)
(* returns True.                                                           *)
C6_Original ==
  \A d \in DOMAIN requests :
    (Done(d) /\ HandlerRan(d) /\ requests[d].exc = NoExc) =>
      /\ requests[d].result = "True"
      /\ RowOf(d).processed = TRUE
      /\ RowOf(d).processed_at # NoTime
      /\ RowOf(d).error = None

(* C6 amended: when the handler returned without raising, either the       *)
(* commit of the processed flag succeeded, and then the row is processed   *)
(* with processed_at set and no error and process_event returned True; or  *)
(* that commit failed, and then the row is not processed and process_event *)
(* did not return True.  process_event returns True in no other case.      *)
C6_ProcessedOnSuccess ==
  \A d \in DOMAIN requests :
    /\ (Done(d) /\ HandlerRan(d) /\ requests[d].exc = NoExc) =>
         \/ /\ requests[d].result = "True"
            /\ RowOf(d).processed = TRUE
            /\ RowOf(d).processed_at # NoTime
            /\ RowOf(d).error = None
         \/ /\ requests[d].result \in {"False", "raised"}
            /\ RowOf(d).processed = FALSE
            /\ RowOf(d).processed_at = NoTime
            /\ RowOf(d).error = IF requests[d].result = "False" THEN MarkFailed ELSE None
    /\ requests[d].result = "True" =>
         Done(d) /\ HandlerRan(d) /\ requests[d].exc = NoExc

C6_Witness ==
  \E d \in DOMAIN requests :
    /\ Done(d) /\ HandlerRan(d) /\ requests[d].exc = NoExc
    /\ requests[d].result = "True"
    /\ RowOf(d).processed = TRUE
    /\ RowOf(d).processed_at = UtcNow

(* C7: for a type with a built-in default handler, once a custom handler   *)
(* is registered process_event invokes that custom handler only: the       *)
(* default handler does not run and its effect on the users is not         *)
(* applied.                                                                *)
C7_CustomHandlerOnly ==
  [][\A d \in DOMAIN requests :
       ( /\ HandlerStep(d)
         /\ requests[d].event.type \in DefaultTypes
         /\ event_handlers[requests[d].event.type] # None )
       => /\ requests'[d].ran = event_handlers[requests[d].event.type]
          /\ requests'[d].ran \in CustomHandlers
          /\ users' = users]_vars

C7_Witness ==
  \E d \in DOMAIN requests :
    /\ requests[d].ran \in CustomHandlers
    /\ requests[d].event.type = "customer.subscription.deleted"
    /\ FindUser(users, requests[d].event.data.customer) = 1
    /\ users[1].plan_status = "active"

(* C8: an event of a customer-keyed default type whose customer matches no *)
(* user is a successful no-op whatever the gateway answers: the default    *)
(* handler returns without raising, no user changes, and (unless the       *)
(* commit of the processed flag itself fails) the row ends processed with  *)
(* no error and process_event returns True.                                *)
C8_LookupMissSucceeds ==
  \A d \in DOMAIN requests :
    ( /\ requests[d].ran = "default"
      /\ requests[d].event.type \in CustomerKeyedTypes
      /\ \A u \in UserIds :
           users[u].stripe_customer_id # requests[d].event.data.customer )
    => /\ requests[d].exc = NoExc
       /\ Done(d) =>
            \/ /\ requests[d].result = "True"
               /\ RowOf(d).processed = TRUE
               /\ RowOf(d).error = None
            \/ RowOf(d).error = MarkFailed
            \/ requests[d].result = "raised"

(* C9: the default handler of customer.subscription.deleted, when it       *)
(* returns for a user matched by customer id, sets that user's plan_status *)
(* to 'canceled' and stripe_subscription_id to null and leaves plan_name,  *)
(* the period bounds, the trial bounds, cancel_at_period_end and           *)
(* stripe_customer_id as they were.                                        *)
C9_DeletedCancelsOnly ==
  [][\A d \in DOMAIN requests : \A u \in UserIds :
       ( /\ HandlerStep(d)
         /\ requests[d].event.type = "customer.subscription.deleted"
         /\ requests'[d].ran = "default"
         /\ requests'[d].exc = NoExc
         /\ users[u].stripe_customer_id = requests[d].event.data.customer )
       => /\ users'[u].plan_status = "canceled"
          /\ users'[u].stripe_subscription_id = None
          /\ users'[u].plan_name = users[u].plan_name
          /\ users'[u].current_period_start = users[u].current_period_start
          /\ users'[u].current_period_end = users[u].current_period_end
          /\ users'[u].trial_start = users[u].trial_start
          /\ users'[u].trial_end = users[u].trial_end
          /\ users'[u].cancel_at_period_end = users[u].cancel_at_period_end
          /\ users'[u].stripe_customer_id = users[u].stripe_customer_id]_vars

C9_Witness ==
  \E d \in DOMAIN requests :
    /\ requests[d].event.type = "customer.subscription.deleted"
    /\ requests[d].ran = "default"
    /\ requests[d].exc = NoExc
    /\ users[1].stripe_customer_id = requests[d].event.data.customer
    /\ users[1].plan_status = "canceled"
    /\ users[1].stripe_subscription_id = None
    /\ users[1].plan_name = "pro"
    /\ users[1].current_period_end = 2
    /\ users[1].trial_end = 1

(* The step in which a request that is not authentic arrives. *)
BadArrival ==
  /\ Len(requests') = Len(requests) + 1
  /\ ~Authentic(requests'[Len(requests')].req)

(* C10 as stated: a delivery whose payload is malformed or whose signature *)
(* is missing or does not verify yields no event, stores no row, runs no   *)
(* handler, changes no user, and is answered 400.                          *)
C10_Original ==
  [][BadArrival =>
       LET r == requests'[Len(requests')]
       IN /\ r.event = NoEvent /\ r.row = NoRow /\ r.ran = "none" /\ r.pc = "done"
          /\ rows' = rows /\ users' = users
          /\ r.response = 400]_vars

(* C10 amended: such a delivery yields no event, stores no row, runs no    *)
(* handler and changes no user; it is answered 400 when the webhook secret *)
(* is configured and 500 when it is not.                                   *)
C10_BadRequestRejected ==
  [][BadArrival =>
       LET r == requests'[Len(requests')]
       IN /\ r.event = NoEvent /\ r.row = NoRow /\ r.ran = "none" /\ r.pc = "done"
          /\ r.result = "none"
          /\ rows' = rows /\ users' = users
          /\ r.response = IF webhook_secret = None THEN 500 ELSE 400]_vars

C10_Witness ==
  \E d \in DOMAIN requests :
    /\ ~Authentic(requests[d].req)
    /\ requests[d].req.payload.wellformed
    /\ webhook_secret # None
    /\ requests[d].response = 400
    /\ requests[d].row = NoRow
    /\ Len(rows) < Len(requests)

(* The call that a step appends to calls, if it appends one. *)
Observed(i) == i \in DOMAIN calls' /\ i \notin DOMAIN calls
(* The header is the signature of this very payload under this secret. *)
Matches(payload, sig_header, secret) ==
  /\ sig_header.present
  /\ sig_header.payload = payload
  /\ sig_header.secret = secret

C14_SubscribedIffActiveOrTrialing ==
  \A i \in DOMAIN calls :
    calls[i].fn = "is_subscribed" =>
      (calls[i].result <=> calls[i].user.plan_status \in {"active", "trialing"})

C14_Witness ==
  \E i \in DOMAIN calls :
    /\ calls[i].fn = "is_subscribed"
    /\ calls[i].user.plan_status = "canceled"
    /\ calls[i].result = FALSE

(* C15: is_on_trial() is true exactly when plan_status is 'trialing',      *)
(* trial_end is set and the clock reads strictly before trial_end; at or   *)
(* after trial_end, or with any other status, it is false.                 *)
C15_OnTrialIffBeforeTrialEnd ==
  \A i \in DOMAIN calls :
    calls[i].fn = "is_on_trial" =>
      LET u == calls[i].user
      IN calls[i].result <=>
           ( /\ u.plan_status = "trialing"
             /\ u.trial_end # NoTime
             /\ calls[i].now < u.trial_end )

C15_Witness ==
  \E i \in DOMAIN calls :
    /\ calls[i].fn = "is_on_trial"
    /\ calls[i].user.plan_status = "trialing"
    /\ calls[i].user.trial_end = calls[i].now
    /\ calls[i].result = FALSE

(* C16: subscription_active() is true exactly when is_subscribed() is      *)
(* true, current_period_end is set and the clock reads strictly before     *)
(* current_period_end.                                                     *)
C16_ActiveIffBeforePeriodEnd ==
  \A i \in DOMAIN calls :
    calls[i].fn = "subscription_active" =>
      LET u == calls[i].user
      IN calls[i].result <=>
           ( /\ is_subscribed(u)
             /\ u.current_period_end # NoTime
             /\ calls[i].now < u.current_period_end )

C16_Witness ==
  \E i \in DOMAIN calls :
    /\ calls[i].fn = "subscription_active"
    /\ calls[i].user.plan_status = "active"
    /\ calls[i].user.current_period_end = calls[i].now + 1
    /\ calls[i].result = TRUE

(* C12: the status answered to a request: 500 when the webhook secret is   *)
(* not configured, whatever the payload and signature, with no row stored  *)
(* and no handler run; otherwise 400 when verification fails; otherwise    *)
(* 200 exactly when process_event returned True and 500 exactly when it    *)
(* reported failure (returned False, or an exception left it).             *)
C12_StatusCode ==
  \A d \in DOMAIN requests :
    Done(d) =>
      LET r == requests[d]
      IN IF webhook_secret = None
         THEN /\ r.response = 500
              /\ r.event = NoEvent /\ r.row = NoRow /\ r.ran = "none"
              /\ rows = <<>>
         ELSE IF ~Authentic(r.req)
         THEN r.response = 400
         ELSE /\ r.response \in {200, 500}
              /\ r.response = 200 <=> r.result = "True"
              /\ r.response = 500 <=> r.result \in {"False", "raised"}

C12_Witness ==
  \E d \in DOMAIN requests :
    /\ Done(d)
    /\ webhook_secret # None
    /\ Authentic(requests[d].req)
    /\ requests[d].result = "False"
    /\ requests[d].response = 500
    /\ RowOf(d).error # None

(* C13: when the default handler of customer.subscription.created or       *)
(* customer.subscription.updated returns for a user matched by customer    *)
(* id, that user's plan status, period bounds, trial bounds and            *)
(* cancel-at-period-end flag are those of the event's subscription; with   *)
(* status trialing the user is subscribed, and on trial at every instant   *)
(* before the payload's trial_end.                                         *)
C13_SubscriptionMirrored ==
  [][\A d \in DOMAIN requests : \A u \in UserIds :
       ( /\ HandlerStep(d)
         /\ requests[d].event.type \in
              {"customer.subscription.created", "customer.subscription.updated"}
         /\ requests'[d].ran = "default"
         /\ requests'[d].exc = NoExc
         /\ users[u].stripe_customer_id = requests[d].event.data.customer )
       => LET sub == requests[d].event.data
          IN /\ users'[u].plan_status = sub.status
             /\ users'[u].current_period_start = sub.current_period_start
             /\ users'[u].current_period_end = sub.current_period_end
             /\ users'[u].trial_start = sub.trial_start
             /\ users'[u].trial_end = sub.trial_end
             /\ users'[u].cancel_at_period_end = sub.cancel_at_period_end
             /\ sub.status = "trialing" =>
                  /\ is_subscribed(users'[u])
                  /\ \A now \in Times :
                       now < sub.trial_end => is_on_trial(users'[u], now)]_vars

C13_Witness ==
  \E d \in DOMAIN requests :
    /\ requests[d].event.id = "evt_01"
    /\ requests[d].ran = "default"
    /\ requests[d].exc = NoExc
    /\ users[1].plan_status = "trialing"
    /\ users[1].trial_end = 3
    /\ is_subscribed(users[1])
    /\ is_on_trial(users[1], 2)

(* The types whose default handling applies nothing: the two invoice types *)
(* and every type outside the default dispatch table.                      *)
NoEffectTypes ==
  {"invoice.payment_succeeded", "invoice.payment_failed"}
    \cup (EventTypes \ DefaultTypes)
(* The step in which process_event, back from the handler, completes. *)
FinishStep(d) ==
  /\ d \in DOMAIN requests
  /\ requests[d].pc = "finish"
  /\ requests'[d].pc = "done"

(* C17 as stated: with no custom handler registered for its type, an event *)
(* of such a type changes no user, raises no error, and its row ends       *)
(* processed with no error.                                                *)
C17_Original ==
  [][\A d \in DOMAIN requests :
       /\ ( /\ HandlerStep(d)
            /\ requests[d].event.type \in NoEffectTypes
            /\ event_handlers[requests[d].event.type] = None )
          => /\ users' = users
             /\ requests'[d].ran = "default"
             /\ requests'[d].exc = NoExc
       /\ ( /\ FinishStep(d)
            /\ requests[d].event.type \in NoEffectTypes
            /\ requests[d].ran = "default" )
          => /\ rows'[requests[d].row].processed = TRUE
             /\ rows'[requests[d].row].error = None]_vars

(* C17 amended: such an event changes no user and its handler raises no    *)
(* error; its row ends processed with no error when the commit of the      *)
(* processed flag succeeds, and not processed when that commit fails.      *)
C17_NoEffectTypes ==
  [][\A d \in DOMAIN requests :
       /\ ( /\ HandlerStep(d)
            /\ requests[d].event.type \in NoEffectTypes
            /\ event_handlers[requests[d].event.type] = None )
          => /\ users' = users
             /\ requests'[d].ran = "default"
             /\ requests'[d].exc = NoExc
       /\ ( /\ FinishStep(d)
            /\ requests[d].event.type \in NoEffectTypes
            /\ requests[d].ran = "default" )
          => LET r == rows'[requests[d].row]
             IN \/ /\ requests'[d].result = "True"
                   /\ r.processed = TRUE
                   /\ r.error = None
                \/ /\ requests'[d].result \in {"False", "raised"}
                   /\ r.processed = FALSE
                   /\ r.error = IF requests'[d].result = "False"
                                THEN MarkFailed ELSE None]_vars

C17_Witness ==
  \E d \in DOMAIN requests :
    /\ Done(d)
    /\ requests[d].event.type = "invoice.payment_failed"
    /\ requests[d].ran = "default"
    /\ requests[d].result = "True"
    /\ RowOf(d).processed = TRUE
    /\ RowOf(d).error = None
    /\ users[1].plan_status = "active"

(* The handler the recorded register_handler calls leave for type t: that  *)
(* of the latest call for t, the default handling when there is none.      *)
LastRegistered(cs, t) ==
  LET for_t == {i \in DOMAIN cs : cs[i].fn = "register_handler" /\ cs[i].event_type = t}
  IN IF for_t = {} THEN "default"
     ELSE cs[CHOOSE i \in for_t : \A j \in for_t : j <= i].handler

(* C18: the registry holds one handler per type and the last registration  *)
(* wins: after any sequence of register_handler calls every type is        *)
(* dispatched to the handler most recently registered for it, a delivered  *)
(* event is run by that handler, and a registration for one type changes   *)
(* the dispatch of no other type.                                          *)
C18_LastRegistrationWins ==
  [][/\ \A t \in EventTypes :
          Dispatch(event_handlers', t) = LastRegistered(calls', t)
     /\ \A d \in DOMAIN requests :
          HandlerStep(d) =>
            requests'[d].ran = LastRegistered(calls, requests[d].event.type)
     /\ \A i \in DOMAIN calls' :
          (Observed(i) /\ calls'[i].fn = "register_handler") =>
            \A t \in EventTypes \ {calls'[i].event_type} :
              Dispatch(event_handlers', t) = Dispatch(event_handlers, t)]_vars

C18_Witness ==
  \E d \in DOMAIN requests :
    /\ Len(calls) = 2
    /\ calls[1] = RegisterCall(requests[d].event.type, "custom")
    /\ calls[2] = RegisterCall(requests[d].event.type, "custom2")
    /\ requests[d].ran = "custom2"

(* A row left received, not processed, with its error recorded. *)
Errored(r) == r.processed = FALSE /\ r.error # None

(* C19: no automatic retry.  A process_event call invokes its handler at   *)
(* most once: once it has run, it does not run again for that call and the *)
(* users change only in a handler's single run.  A row that is not         *)
(* processed and carries an error is changed by no later step, be it a     *)
(* later delivery of another event or of the same gateway event id.        *)
C19_NoRetry ==
  [][/\ \A d \in DOMAIN requests :
          HandlerRan(d) => /\ ~HandlerStep(d)
                           /\ requests'[d].ran = requests[d].ran
                           /\ requests'[d].exc = requests[d].exc
     /\ users' # users => \E d \in DOMAIN requests : HandlerStep(d) /\ ~HandlerRan(d)
     /\ \A i \in DOMAIN rows :
          Errored(rows[i]) => i \in DOMAIN rows' /\ rows'[i] = rows[i]]_vars

C19_Witness ==
  \E d, k \in DOMAIN requests :
    /\ d < k
    /\ requests[d].event.id = requests[k].event.id
    /\ Done(d) /\ requests[d].result = "False"
    /\ Errored(RowOf(d))
    /\ Done(k) /\ requests[k].result = "True"
    /\ RowOf(k).processed = TRUE

(* The outcome fields of a row have been written. *)
HasOutcome(r) == r.processed = TRUE \/ r.error # None

(* C20: the lifecycle of a WebhookEvent row.  A row is never deleted; its  *)
(* gateway event id, type and payload never change; its outcome fields are *)
(* written once, by the process_event call that inserted it, when that     *)
(* call completes; and every call that completes leaves its row either     *)
(* processed or with its error recorded.                                   *)
C20_RowLifecycle ==
  [][/\ \A i \in DOMAIN rows :
          /\ i \in DOMAIN rows'
          /\ rows'[i].stripe_event_id = rows[i].stripe_event_id
          /\ rows'[i].event_type = rows[i].event_type
          /\ rows'[i].data = rows[i].data
          /\ HasOutcome(rows[i]) => rows'[i] = rows[i]
          /\ rows'[i] # rows[i] =>
               \E d \in DOMAIN requests : FinishStep(d) /\ requests[d].row = i
     /\ \A d \in DOMAIN requests :
          FinishStep(d) => HasOutcome(rows'[requests[d].row])]_vars

(* The user's subscription state is that of the gateway subscription. *)
Mirrors(u, sub) ==
  /\ u.plan_name = sub.plan
  /\ u.plan_status = sub.status
  /\ u.current_period_start = sub.current_period_start
  /\ u.current_period_end = sub.current_period_end
  /\ u.trial_start = sub.trial_start
  /\ u.trial_end = sub.trial_end
  /\ u.cancel_at_period_end = sub.cancel_at_period_end
(* The deliveries whose default created / updated handler has returned. *)
Applied ==
  {d \in DOMAIN requests :
     /\ requests[d].ran = "default"
     /\ requests[d].exc = NoExc
     /\ requests[d].event.type \in
          {"customer.subscription.created", "customer.subscription.updated"}}

(* C21: last write wins by arrival order.  When subscription created /     *)
(* updated events of one matched customer are processed one after another  *)
(* by the default handlers, the user's subscription state is the payload   *)
(* of the event processed last, whichever the gateway emitted last.        *)
C21_LastArrivalWins ==
  \A d \in Applied : \A u \in UserIds :
    ( /\ \A k \in Applied : k <= d
      /\ users[u].stripe_customer_id = requests[d].event.data.customer )
    => Mirrors(users[u], requests[d].event.data)

C21_Witness ==
  /\ Applied = {1, 2}
  /\ requests[1].event.id = "evt_02"
  /\ requests[2].event.id = "evt_01"
  /\ requests[1].event.data.current_period_start
       > requests[2].event.data.current_period_start
  /\ Mirrors(users[1], requests[2].event.data)
  /\ users[1].plan_status = "trialing"

(* process_event is between recording its row and the return of its        *)
(* handler: the reconciliation of request d is under way.                  *)
Reconciling(d) == requests[d].pc = "handler"

(* C22: at most one reconciliation proceeds at a time for a customer: no   *)
(* two process_event invocations for events of the same customer id are    *)
(* both between recording their row and finishing their handler.           *)
C22_OneReconciliationPerCustomer ==
  \A d, k \in DOMAIN requests :
    ( /\ Reconciling(d) /\ Reconciling(k)
      /\ requests[d].event.data.customer = requests[k].event.data.customer )
    => d = k

(* C23: checkout.session.completed under the default handler.  A session   *)
(* without a subscription id causes no remote fetch (so no fetch can fail) *)
(* and changes no user.  A session with a subscription id whose customer   *)
(* matches a user leaves, when the handler returns, that user's            *)
(* subscription state equal to a subscription fetched from the gateway,    *)
(* not to the session payload.                                             *)
C23_CheckoutAppliesFetched ==
  [][\A d \in DOMAIN requests :
       ( /\ HandlerStep(d)
         /\ requests[d].event.type = "checkout.session.completed"
         /\ requests'[d].ran = "default" )
       => LET session == requests[d].event.data
          IN IF session.subscription = None
             THEN /\ users' = users
                  /\ requests'[d].exc = NoExc
             ELSE \A u \in UserIds :
                    ( /\ users[u].stripe_customer_id = session.customer
                      /\ requests'[d].exc = NoExc )
                    => /\ \E f \in RemoteSubscriptions(session.customer) :
                            Mirrors(users'[u], f)
                       /\ ~Mirrors(users'[u], session)]_vars

C23_Witness ==
  \E d \in DOMAIN requests :
    /\ requests[d].event.id = "evt_04"
    /\ requests[d].ran = "default"
    /\ requests[d].exc = NoExc
    /\ Mirrors(users[1], SubActive("cus_1"))
    /\ users[1].plan_name = "enterprise"

(* C24: no row is both processed and errored, also when the commit of the  *)
(* processed flag fails after the handler returned; and process_event      *)
(* returns True only with its row stored as processed.                     *)
C24_ProcessedExcludesError ==
  /\ \A i \in DOMAIN rows :
       ~(rows[i].processed = TRUE /\ rows[i].error # None)
  /\ \A d \in DOMAIN requests :
       requests[d].result = "True" =>
         /\ requests[d].row \in DOMAIN rows
         /\ RowOf(d).processed = TRUE
         /\ RowOf(d).processed_at # NoTime

C24_Witness ==
  \E d \in DOMAIN requests :
    /\ Done(d)
    /\ HandlerRan(d)
    /\ requests[d].exc = NoExc
    /\ requests[d].result = "False"
    /\ RowOf(d).error = MarkFailed
    /\ RowOf(d).processed = FALSE

(* C25: a default handler changes only the user whose stripe_customer_id   *)
(* is the event's customer id: every other user keeps all subscription     *)
(* fields, and no step changes any user's stripe_customer_id.              *)
C25_OnlyMatchedUserChanges ==
  [][/\ \A d \in DOMAIN requests : \A u \in UserIds :
          ( /\ HandlerStep(d)
            /\ requests'[d].ran = "default"
            /\ users[u].stripe_customer_id # requests[d].event.data.customer )
          => users'[u] = users[u]
     /\ \A u \in UserIds :
          users'[u].stripe_customer_id = users[u].stripe_customer_id]_vars

C25_Witness ==
  \E d \in DOMAIN requests :
    /\ requests[d].event.id = "evt_03"
    /\ requests[d].ran = "default"
    /\ requests[d].exc = NoExc
    /\ users[1].stripe_customer_id = "cus_1"
    /\ users[1].plan_status = "canceled"
    /\ users[2] = ActiveUser("cus_2")

(* The plan names a caller may ask about. *)
Plans == {"pro", "enterprise"}
(* Every entitlement method denies, at every instant and for every plan. *)
Revoked(u) ==
  /\ ~is_subscribed(u)
  /\ \A now \in Times : ~is_on_trial(u, now) /\ ~subscription_active(u, now)
  /\ \A p \in Plans : ~has_plan(u, p)
  /\ \A ps \in SUBSET Plans : ~has_any_plan(u, ps)
(* The step in which a default handler applies a subscription event to u. *)
AppliedTo(u) ==
  \E d \in DOMAIN requests :
    /\ HandlerStep(d)
    /\ requests'[d].ran = "default"
    /\ requests[d].event.type \in CustomerKeyedTypes
    /\ users[u].stripe_customer_id = requests[d].event.data.customer

(* C26: deletion revokes entitlement.  When the default handler of         *)
(* customer.subscription.deleted returns for a matched user, every         *)
(* entitlement method is false of that user while plan_name, trial_end and *)
(* current_period_end keep their earlier values; and this lasts until a    *)
(* subscription event is applied to that user: no other step changes the   *)
(* user.                                                                   *)
C26_DeletionRevokes ==
  [][\A u \in UserIds :
       /\ \A d \in DOMAIN requests :
            ( /\ HandlerStep(d)
              /\ requests[d].event.type = "customer.subscription.deleted"
              /\ requests'[d].ran = "default"
              /\ requests'[d].exc = NoExc
              /\ users[u].stripe_customer_id = requests[d].event.data.customer )
            => /\ Revoked(users'[u])
               /\ users'[u].plan_name = users[u].plan_name
               /\ users'[u].trial_end = users[u].trial_end
               /\ users'[u].current_period_end = users[u].current_period_end
       /\ (Revoked(users[u]) /\ ~AppliedTo(u)) => users'[u] = users[u]]_vars

C26_Witness ==
  /\ Len(requests) = 2
  /\ requests[1].event.id = "evt_03"
  /\ requests[1].ran = "default" /\ requests[1].exc = NoExc
  /\ requests[2].event.id = "evt_01"
  /\ requests[2].pc = "handler"
  /\ Revoked(users[1])
  /\ users[1].plan_status = "canceled"
  /\ users[1].plan_name = "pro"
  /\ users[1].trial_end = 1
  /\ users[1].current_period_end = 2

====
